---- MODULE Spec2Model ----
(***************************************************************************)
(* The canvas controller of Kleem-AI (CanvasContent): the node/edge graph, *)
(* the undo/redo history, node creation with automatic placement, deletion *)
(* and prev/next navigation.                                               *)
(*                                                                         *)
(* A React handler reads `nodes` and `edges' from the render it was        *)
(* created in.  A handler called from the toolbar belongs to the current   *)
(* render; a handler stored in a node's data, or run from a timer, belongs *)
(* to the render in which it was stored.  The graph a handler sees is      *)
(* modelled as its `closure'.                                              *)
(***************************************************************************)
EXTENDS Integers, Sequences, FiniteSets, TLC

VARIABLES nodes, edges, past, future, focusedNodeId, timers, dragging,
          pending, now, fuel, last, visited, lived

vars == <<nodes, edges, past, future, focusedNodeId, timers, dragging,
          pending, now, fuel, last, visited, lived>>

(* ---------------------------- bounds ----------------------------------- *)
MaxSteps == 4        \* handler invocations explored by Spec
MaxPlaceSteps == 6   \* handler invocations explored by SpecPlace
MaxHistSteps == 12   \* handler invocations explored by SpecHist
MaxNodes == 4        \* nodes on the canvas
MaxTime == 1         \* largest value Date.now() returns
MaxTreeNodes == 5    \* size of the trees SpecNav walks
MaxGenSteps == 5     \* handler invocations explored by SpecGen
MaxCmdSteps == 4     \* handler invocations explored by SpecCmd
MaxWireSteps == 4    \* handler invocations explored by SpecWire
MaxFullSteps == 5    \* handler invocations explored by SpecFull
MaxLivedSteps == 5   \* handler invocations explored by SpecLived
MaxLateSteps == 6    \* handler invocations explored by SpecLate
MaxGuardSteps == 5   \* handler invocations explored by SpecGuard

(* ------------------------- program constants --------------------------- *)
HistoryKeep == 9     \* prev.slice(-9)
xOffset == 600
ySpacing == 600
FocusOffset == 600
FallbackBase == 100
FallbackStep == 30

Null == <<>>
NoPos == <<>>

Pos(px, py) == <<px, py>>
PosX(p) == p[1]
PosY(p) == p[2]

(* ids: `start' is <<"start">>, `${type}-${Date.now()}' is <<type, t>> *)
StartId == <<"start">>
MkId(type, t) == <<type, t>>
EdgeId(parentId, id) == <<"e", parentId, id>>
ConnectEdgeId(s, t) == <<"reactflow__edge", s, t>>

Graph(ns, es) == [nodes |-> ns, edges |-> es]

(* data.slideContent of a slides node: absent, the slides as generated, or *)
(* the slides with the image of the current slide                          *)
NoSlides == 0
TextSlides == 1
ImageSlides == 2

(* a node: cap is the closure of the handlers stored in its data (Null when *)
(* it stores none); under records the parent whose child stack placed it,   *)
(* Null for a node placed any other way or moved since                     *)
MkNode(id, type, pos, cap, under) ==
    [id |-> id, type |-> type, position |-> pos, selected |-> FALSE,
     isFullScreen |-> FALSE, slideContent |-> NoSlides, cap |-> cap,
     under |-> under]

(* the array of the first render; its start node has data {} *)
INITIAL_NODES == << MkNode(StartId, "start", Pos(0, 0), Null, Null) >>

(* the start node once the mount effect has stored handleStart/handleResume *)
(* of the first render in its data                                          *)
MountedNodes == << MkNode(StartId, "start", Pos(0, 0),
                          <<Graph(INITIAL_NODES, <<>>)>>, Null) >>

(* ------------------------- sequence helpers ---------------------------- *)
Range(s) == {s[i] : i \in 1..Len(s)}
Front(s) == SubSeq(s, 1, Len(s) - 1)
LastOf(s) == s[Len(s)]

RECURSIVE FilterSeq(_, _)
FilterSeq(s, keep) ==
    IF s = <<>> THEN <<>>
    ELSE IF Head(s) \in keep THEN <<Head(s)>> \o FilterSeq(Tail(s), keep)
         ELSE FilterSeq(Tail(s), keep)

(* s.slice(-n) *)
SliceLast(s, n) == IF Len(s) <= n THEN s ELSE SubSeq(s, Len(s) - n + 1, Len(s))

Ids(ns) == {ns[i].id : i \in 1..Len(ns)}

(* ns.find(n => n.id === id): the first match, Null when there is none *)
FindNode(ns, id) ==
    IF \E i \in 1..Len(ns) : ns[i].id = id
    THEN <<ns[CHOOSE i \in 1..Len(ns) :
                /\ ns[i].id = id
                /\ \A j \in 1..(i - 1) : ns[j].id # id]>>
    ELSE Null

(* ------------------------------ history -------------------------------- *)
(* takeSnapshot: setPast(prev => [...prev.slice(-9), {nodes, edges}]) *)
TakeSnapshotDropNewest(p, closure) ==
    IF Len(p) <= HistoryKeep THEN Append(p, closure)
    ELSE Append(SubSeq(p, 1, HistoryKeep), closure)

TakeSnapshot(p, closure) == Append(SliceLast(p, HistoryKeep), closure)

(* undo: setFuture(prev => [{nodes, edges}, ...prev]) *)
UndoFutureTwice(f, cur) == <<cur, cur>> \o f

UndoFutureNodesOnly(f, cur) == <<Graph(cur.nodes, <<>>)>> \o f

UndoFuture(f, cur) == <<cur>> \o f

(* redo: setPast(prev => [...prev, {nodes, edges}]) *)
RedoPastPushesNext(p, cur, nxt) == Append(p, nxt)

RedoPast(p, cur, nxt) == Append(p, cur)

(* undo, called with the stacks p and f from a render whose graph is cur: *)
(* if (past.length === 0) return; else the last entry of past becomes the *)
(* graph and cur goes to the front of future                              *)
UndoStepNoGuard(p, f, cur) ==
    [graph |-> IF Len(p) = 0 THEN cur ELSE LastOf(p),
     past |-> IF Len(p) = 0 THEN p ELSE Front(p),
     future |-> UndoFuture(f, cur)]

UndoStep(p, f, cur) ==
    IF Len(p) = 0
    THEN [graph |-> cur, past |-> p, future |-> f]
    ELSE [graph |-> LastOf(p), past |-> Front(p), future |-> UndoFuture(f, cur)]

(* redo: if (future.length === 0) return; else the head of future becomes *)
(* the graph and cur is appended to past                                  *)
RedoStep(p, f, cur) ==
    IF Len(f) = 0
    THEN [graph |-> cur, past |-> p, future |-> f]
    ELSE [graph |-> Head(f), past |-> RedoPast(p, cur, Head(f)), future |-> Tail(f)]

Live == Graph(nodes, edges)

(* a graph without the handlers stored in its nodes' data *)
Content(g) ==
    Graph([j \in 1..Len(g.nodes) |-> [g.nodes[j] EXCEPT !.cap = Null]], g.edges)

(* ----------------------- bookkeeping of a step ------------------------- *)
Pre == [nodes |-> nodes, edges |-> edges, past |-> past, future |-> future,
        focus |-> focusedNodeId]

(* lived is the record of the graphs that have been live (handlers     *)
(* aside); it is kept by the specifications that start it non-empty    *)
Note(op, info) ==
    /\ fuel > 0
    /\ fuel' = fuel - 1
    /\ last' = [op |-> op, pre |-> Pre, info |-> info, prevOp |-> last.op]
    /\ lived' = IF lived = {} THEN lived ELSE lived \cup {Content(Live)}

NoInfo == [parent |-> Null, auto |-> FALSE, id |-> Null, pos |-> NoPos,
           given |-> NoPos]

(* ------------------------- the React Flow store ------------------------ *)
(* getEdges().filter(e => e.source === parentId).length *)
ExistingChildren(es, parentId) ==
    Cardinality({i \in 1..Len(es) : es[i].source = parentId})

(* deleteElements({nodes}): the nodes with these ids and every edge that *)
(* touches one of them leave the store                                   *)
RemoveNodes(ns, ids) == FilterSeq(ns, {n \in Range(ns) : n.id \notin ids})

RemoveEdges(es, ids) ==
    FilterSeq(es, {e \in Range(es) : e.source \notin ids /\ e.target \notin ids})

(* addEdge(params, eds): an edge source -> target that is already there is *)
(* not added again                                                         *)
AddEdge(s, t, es) ==
    IF \E i \in 1..Len(es) : es[i].source = s /\ es[i].target = t THEN es
    ELSE Append(es, [id |-> ConnectEdgeId(s, t), source |-> s, target |-> t])

(* the handles a node type renders: StartNode has a source handle only, *)
(* LiveNode has none                                                    *)
HasSourceHandle(n) == n.type # "live"
HasTargetHandle(n) == n.type \notin {"start", "live"}
HasCloseButton(n) == n.type \in {"curriculum", "study", "quiz", "slides", "code", "media"}

(* ------------------------- asynchronous calls -------------------------- *)
(* a call that is in flight: the slides request of a mounted SlideNodeContent *)
(* (mounted is its isMounted flag), the image request of one, or              *)
(* interpretAgentCommand awaited by handleCommandSubmit, which keeps the      *)
(* render's closure, the parent and the position it was called with           *)
SlidesRequest(nodeId) ==
    [kind |-> "slides", nodeId |-> nodeId, mounted |-> TRUE, closure |-> Null,
     parent |-> Null, position |-> NoPos]

ImageRequest(nodeId) ==
    [kind |-> "image", nodeId |-> nodeId, mounted |-> TRUE, closure |-> Null,
     parent |-> Null, position |-> NoPos]

CommandCall(closure, parent, position) ==
    [kind |-> "command", nodeId |-> Null, mounted |-> TRUE, closure |-> <<closure>>,
     parent |-> parent, position |-> position]

CourseCall(closure) ==
    [kind |-> "course", nodeId |-> Null, mounted |-> TRUE, closure |-> <<closure>>,
     parent |-> Null, position |-> NoPos]

DropPending(pend, i) == SubSeq(pend, 1, i - 1) \o SubSeq(pend, i + 1, Len(pend))

(* the cleanup of the fetchSlides effect: isMounted = false *)
Unmount(pend, ids) ==
    [i \in 1..Len(pend) |->
        IF pend[i].kind = "slides" /\ pend[i].nodeId \in ids
        THEN [pend[i] EXCEPT !.mounted = FALSE]
        ELSE pend[i]]

(* the effects of a SlideNodeContent that mounts: without slideContent it *)
(* fetches the slides, with slides that lack the image it fetches the     *)
(* image                                                                  *)
MountEffects(n) ==
    IF n.type # "slides" THEN <<>>
    ELSE IF n.slideContent = NoSlides THEN <<SlidesRequest(n.id)>>
    ELSE IF n.slideContent = TextSlides THEN <<ImageRequest(n.id)>>
    ELSE <<>>

RECURSIVE MountAll(_, _)
MountAll(ns, oldIds) ==
    IF ns = <<>> THEN <<>>
    ELSE (IF Head(ns).id \in oldIds THEN <<>> ELSE MountEffects(Head(ns)))
         \o MountAll(Tail(ns), oldIds)

(* nodes enter or leave full screen from ns to ns2: their content *)
(* components unmount and mount again                             *)
Toggled(ns, ns2) ==
    {ns[j].id : j \in {k \in 1..Len(ns) : ns[k].isFullScreen # ns2[k].isFullScreen}}

RemountToggled(ns, ns2, pend) ==
    Unmount(pend, Toggled(ns, ns2)) \o MountAll(ns2, Ids(ns) \ Toggled(ns, ns2))

(* the node collection changes from ns to ns2: the components of the nodes *)
(* that left unmount, those of the nodes that came mount                   *)
Remount(ns, ns2, pend) ==
    Unmount(pend, Ids(ns) \ Ids(ns2)) \o MountAll(ns2, Ids(ns))

(* ---------------------- node creation and placement -------------------- *)
ParentPlacementNoStack(parent, k) ==
    Pos(PosX(parent.position) + xOffset, PosY(parent.position))

ParentPlacement(parent, k) ==
    Pos(PosX(parent.position) + xOffset, PosY(parent.position) + k * ySpacing)

FallbackPlacement(count) ==
    Pos(FallbackBase + count * FallbackStep, FallbackBase + count * FallbackStep)

Placement(position, parentId, focus, ns, es) ==
    LET parent == FindNode(ns, parentId)
        focused == FindNode(ns, focus)
        pos == IF position # NoPos THEN position
               ELSE IF parentId # Null
                    THEN IF parent # Null
                         THEN ParentPlacement(parent[1], ExistingChildren(es, parentId))
                         ELSE NoPos
               ELSE IF focus # Null
                    THEN IF focused # Null
                         THEN Pos(PosX(focused[1].position) + FocusOffset,
                                  PosY(focused[1].position))
                         ELSE NoPos
               ELSE NoPos
    IN IF pos = NoPos THEN FallbackPlacement(Len(ns)) ELSE pos

(* the position comes from the parent's child stack *)
StackPlaced(position, parentId, ns) ==
    position = NoPos /\ parentId # Null /\ FindNode(ns, parentId) # Null

(* `${type}-${Date.now()}` unless the caller supplies the id *)
NewId(type, explicitId, t) == IF explicitId # Null THEN explicitId ELSE MkId(type, t)

(* the edge addNodeGeneric inserts under if (parentId) *)
NewEdgeReversed(parentId, id) ==
    [id |-> EdgeId(parentId, id), source |-> id, target |-> parentId]

NewEdge(parentId, id) ==
    [id |-> EdgeId(parentId, id), source |-> parentId, target |-> id]

FocusTimer(id) == [kind |-> "focus", id |-> id, closure |-> Null]
ResumeTimer(closure) == [kind |-> "resume", id |-> Null, closure |-> <<closure>>]

(* addNodeGeneric, called from a handler whose render saw `closure'; pastIn *)
(* and timersIn are the past stack and the pending timeouts as the earlier  *)
(* statements of the handler left them                                      *)
AddNodeGeneric(pastIn, timersIn, closure, type, position, parentId, explicitId, cap, t) ==
    LET id == NewId(type, explicitId, t)
        pos == Placement(position, parentId, focusedNodeId, nodes, edges)
    IN /\ Len(nodes) < MaxNodes
       /\ past' = TakeSnapshot(pastIn, closure)
       /\ future' = <<>>
       /\ nodes' = Append(nodes, MkNode(id, type, pos, cap,
                                        IF StackPlaced(position, parentId, nodes)
                                        THEN parentId ELSE Null))
       /\ edges' = IF parentId # Null
                   THEN Append(edges, NewEdge(parentId, id))
                   ELSE edges
       /\ timers' = Append(timersIn, FocusTimer(id))
       /\ now' = t
       /\ UNCHANGED <<focusedNodeId, dragging, visited>>

CreateInfo(position, parentId, id) ==
    [parent |-> parentId,
     auto |-> StackPlaced(position, parentId, nodes),
     id |-> id,
     given |-> position,
     pos |-> Placement(position, parentId, focusedNodeId, nodes, edges)]

Clock == {t \in {now, now + 1} : t <= MaxTime}

(* explicit positions a caller can pass: the flow position of the connector *)
(* menu, or of the window centre for the live tutor                         *)
MenuPositions == {Pos(900, 300)}
DragPositions == {Pos(0, 0), Pos(600, 600)}
MenuTypes == {"quiz"}

(* a full-screen node is drawn in a fixed overlay above the canvas and the *)
(* toolbar: while one is shown, only its own controls can be clicked       *)
CanvasUsable == \A i \in 1..Len(nodes) : ~nodes[i].isFullScreen

NodeUsable(id) == \A i \in 1..Len(nodes) : nodes[i].isFullScreen => nodes[i].id = id

(* ------------------------------ handlers ------------------------------- *)
(* toolbar "Add Code Sandbox": addNodeGeneric('code', {}, undefined,      *)
(* focusedNodeId || undefined)                                             *)
AddCodeSandbox ==
    /\ fuel > 0
    /\ CanvasUsable
    /\ \E t \in Clock :
          /\ Note("addCode", CreateInfo(NoPos, focusedNodeId, MkId("code", t)))
          /\ AddNodeGeneric(past, timers, Live, "code", NoPos, focusedNodeId, Null, Null, t)
          /\ pending' = Remount(nodes, nodes', pending)

(* the connector menu: addNodeGeneric(type, contextData, position, source) *)
HandleMenuSelect ==
    /\ fuel > 0
    /\ CanvasUsable
    /\ \E i \in 1..Len(nodes), type \in MenuTypes, p \in MenuPositions, t \in Clock :
          /\ HasSourceHandle(nodes[i])
          /\ Note("menuSelect", CreateInfo(p, nodes[i].id, MkId(type, t)))
          /\ AddNodeGeneric(past, timers, Live, type, p, nodes[i].id, Null, Null, t)
          /\ pending' = Remount(nodes, nodes', pending)

(* toggleLiveNode: pushHistory, then delete the live nodes or add one *)
ToggleLiveNode ==
    /\ fuel > 0
    /\ CanvasUsable
    /\ LET liveIds == {n.id : n \in {m \in Range(nodes) : m.type = "live"}}
           pushed == TakeSnapshot(past, Live)
       IN IF liveIds # {}
          THEN /\ Note("toggleLiveOff", NoInfo)
               /\ past' = pushed
               /\ future' = <<>>
               /\ nodes' = RemoveNodes(nodes, liveIds)
               /\ edges' = RemoveEdges(edges, liveIds)
               /\ pending' = Remount(nodes, nodes', pending)
               /\ UNCHANGED <<focusedNodeId, timers, dragging, now, visited>>
          ELSE \E p \in MenuPositions, t \in Clock :
               /\ Note("toggleLiveOn", CreateInfo(p, Null, MkId("live", t)))
               /\ AddNodeGeneric(pushed, timers, Live, "live", p, Null, Null, Null, t)
               /\ pending' = Remount(nodes, nodes', pending)

(* handleDeleteSelected: pushHistory, then deleteElements({nodes: selected}) *)
HandleDeleteSelected ==
    /\ fuel > 0
    /\ LET sel == {n.id : n \in {m \in Range(nodes) : m.selected}}
       IN /\ Note("deleteSelected", NoInfo)
          /\ past' = TakeSnapshot(past, Live)
          /\ future' = <<>>
          /\ nodes' = RemoveNodes(nodes, sel)
          /\ edges' = RemoveEdges(edges, sel)
          /\ pending' = Remount(nodes, nodes', pending)
          /\ UNCHANGED <<focusedNodeId, timers, dragging, now, visited>>

(* a node's own close control, shown while the node is not full screen: *)
(* deleteElements({ nodes: [{ id: nodeId }] })                          *)
NodeClose ==
    /\ fuel > 0
    /\ \E i \in 1..Len(nodes) :
          /\ HasCloseButton(nodes[i])
          /\ ~nodes[i].isFullScreen
          /\ NodeUsable(nodes[i].id)
          /\ Note("nodeClose", NoInfo)
          /\ nodes' = RemoveNodes(nodes, {nodes[i].id})
          /\ edges' = RemoveEdges(edges, {nodes[i].id})
          /\ pending' = Remount(nodes, nodes', pending)
          /\ UNCHANGED <<past, future, focusedNodeId, timers, dragging, now, visited>>

(* onConnect: pushHistory, then setEdges(eds => addEdge(params, eds)) *)
OnConnect ==
    /\ fuel > 0
    /\ CanvasUsable
    /\ \E i \in 1..Len(nodes), j \in 1..Len(nodes) :
          /\ HasSourceHandle(nodes[i])
          /\ HasTargetHandle(nodes[j])
          /\ Note("connect", NoInfo)
          /\ past' = TakeSnapshot(past, Live)
          /\ future' = <<>>
          /\ edges' = AddEdge(nodes[i].id, nodes[j].id, edges)
          /\ UNCHANGED <<nodes, focusedNodeId, timers, dragging, now, visited, pending>>

(* onNodeDragStart: pushHistory *)
OnNodeDragStart ==
    /\ fuel > 0
    /\ CanvasUsable
    /\ \E i \in 1..Len(nodes) :
          /\ dragging = Null
          /\ Note("dragStart", NoInfo)
          /\ past' = TakeSnapshot(past, Live)
          /\ future' = <<>>
          /\ dragging' = nodes[i].id
          /\ UNCHANGED <<nodes, edges, focusedNodeId, timers, now, visited, pending>>

(* onNodesChange with the position change that ends the drag *)
NodeDrag ==
    /\ fuel > 0
    /\ CanvasUsable
    /\ \E p \in DragPositions :
          /\ dragging # Null
          /\ Note("drag", NoInfo)
          /\ nodes' = [i \in 1..Len(nodes) |->
                         IF nodes[i].id = dragging
                         THEN [nodes[i] EXCEPT !.position = p, !.under = Null]
                         ELSE nodes[i]]
          /\ dragging' = Null
          /\ UNCHANGED <<edges, past, future, focusedNodeId, timers, now, visited, pending>>

(* onNodesChange with select changes, then onSelectionChange: *)
(* if (selected.length) setFocusedNodeId(selected[0].id); a select change *)
(* names a node by its id and is applied to every node with that id       *)
OnSelectionChange ==
    /\ fuel > 0
    /\ CanvasUsable
    /\ \E S \in SUBSET (1..Len(nodes)) :
          /\ Cardinality(S) <= 1
          /\ Note("select", NoInfo)
          /\ nodes' = [i \in 1..Len(nodes) |->
                         [nodes[i] EXCEPT !.selected =
                             (nodes[i].id \in {nodes[j].id : j \in S})]]
          /\ nodes' # nodes
          /\ focusedNodeId' = IF S = {} THEN focusedNodeId
                              ELSE nodes[CHOOSE i \in S : \A j \in S : i <= j].id
          /\ UNCHANGED <<edges, past, future, timers, dragging, now, visited, pending>>

(* undo, from the toolbar button *)
Undo ==
    /\ fuel > 0
    /\ CanvasUsable
    /\ Len(past) # 0
    /\ Note("undo", NoInfo)
    /\ past' = UndoStep(past, future, Live).past
    /\ future' = UndoStep(past, future, Live).future
    /\ nodes' = UndoStep(past, future, Live).graph.nodes
    /\ edges' = UndoStep(past, future, Live).graph.edges
    /\ pending' = Remount(nodes, nodes', pending)
    /\ UNCHANGED <<focusedNodeId, timers, dragging, now, visited>>

(* undo() called while past is empty (the toolbar button is disabled then) *)
UndoEmpty ==
    /\ fuel > 0
    /\ Len(past) = 0
    /\ Note("undoNone", NoInfo)
    /\ past' = UndoStep(past, future, Live).past
    /\ future' = UndoStep(past, future, Live).future
    /\ nodes' = UndoStep(past, future, Live).graph.nodes
    /\ edges' = UndoStep(past, future, Live).graph.edges
    /\ pending' = Remount(nodes, nodes', pending)
    /\ UNCHANGED <<focusedNodeId, timers, dragging, now, visited>>

(* redo, from the toolbar button *)
Redo ==
    /\ fuel > 0
    /\ CanvasUsable
    /\ Len(future) # 0
    /\ Note("redo", NoInfo)
    /\ past' = RedoStep(past, future, Live).past
    /\ future' = RedoStep(past, future, Live).future
    /\ nodes' = RedoStep(past, future, Live).graph.nodes
    /\ edges' = RedoStep(past, future, Live).graph.edges
    /\ pending' = Remount(nodes, nodes', pending)
    /\ UNCHANGED <<focusedNodeId, timers, dragging, now, visited>>

(* redo() called while future is empty (the toolbar button is disabled then) *)
RedoEmpty ==
    /\ fuel > 0
    /\ Len(future) = 0
    /\ Note("redoNone", NoInfo)
    /\ past' = RedoStep(past, future, Live).past
    /\ future' = RedoStep(past, future, Live).future
    /\ nodes' = RedoStep(past, future, Live).graph.nodes
    /\ edges' = RedoStep(past, future, Live).graph.edges
    /\ pending' = Remount(nodes, nodes', pending)
    /\ UNCHANGED <<focusedNodeId, timers, dragging, now, visited>>

(* ------------------ handlers stored in a node's data ------------------- *)
(* handleResume, the onResume stored in the start node's data *)
HandleResume ==
    /\ fuel > 0
    /\ \E i \in 1..Len(nodes) :
          /\ nodes[i].type = "start"
          /\ nodes[i].cap # Null
          /\ NodeUsable(nodes[i].id)
          /\ Note("resume", NoInfo)
          /\ past' = TakeSnapshot(past, nodes[i].cap[1])
          /\ future' = <<>>
          /\ nodes' = << MkNode(StartId, "start", Pos(0, 0), nodes[i].cap, Null) >>
          /\ edges' = <<>>
          /\ timers' = Append(timers, ResumeTimer(nodes[i].cap[1]))
          /\ pending' = Remount(nodes, nodes', pending)
          /\ UNCHANGED <<focusedNodeId, dragging, now, visited>>

(* a setTimeout callback runs.  Equal delays run in the order they were  *)
(* set; the resume delay (100) is shorter than the focus delay (150), so *)
(* a resume callback can pass focus callbacks set shortly before it      *)
TimerDue(i) ==
    /\ i \in 1..Len(timers)
    /\ \/ i = 1
       \/ /\ timers[i].kind = "resume"
          /\ \A j \in 1..(i - 1) : timers[j].kind = "focus"

DropTimer(i) == SubSeq(timers, 1, i - 1) \o SubSeq(timers, i + 1, Len(timers))

(* setTimeout(() => { setFocusedNodeId(id); fitView(...) }, 150) *)
FocusTimerFires ==
    /\ fuel > 0
    /\ TimerDue(1)
    /\ timers[1].kind = "focus"
    /\ Note("focusTimer", NoInfo)
    /\ focusedNodeId' = timers[1].id
    /\ timers' = Tail(timers)
    /\ UNCHANGED <<nodes, edges, past, future, dragging, now, visited, pending>>

(* setTimeout(() => addCurriculumNode(session.course), 100), and *)
(* addCurriculumNode: id = `curriculum-${Date.now()}`, position  *)
(* {x: 600, y: 0}, parent 'start'                                *)
ResumeTimerFires ==
    /\ fuel > 0
    /\ \E i \in 1..Len(timers), t \in Clock :
          /\ TimerDue(i)
          /\ timers[i].kind = "resume"
          /\ Note("resumeTimer", CreateInfo(Pos(600, 0), StartId, MkId("curriculum", t)))
          /\ AddNodeGeneric(past, DropTimer(i), timers[i].closure[1], "curriculum",
                            Pos(600, 0), StartId, MkId("curriculum", t),
                            timers[i].closure, t)
          /\ pending' = Remount(nodes, nodes', pending)

(* onSelectModule stored in a curriculum node: addStudyNode(mod, id, title) *)
(* with id = `study-${Date.now()}`, no position, parent the curriculum node *)
OnSelectModule ==
    /\ fuel > 0
    /\ \E i \in 1..Len(nodes), t \in Clock :
          /\ nodes[i].type = "curriculum"
          /\ nodes[i].cap # Null
          /\ NodeUsable(nodes[i].id)
          /\ Note("selectModule", CreateInfo(NoPos, nodes[i].id, MkId("study", t)))
          /\ AddNodeGeneric(past, timers, nodes[i].cap[1], "study", NoPos, nodes[i].id,
                            MkId("study", t), nodes[i].cap, t)
          /\ pending' = Remount(nodes, nodes', pending)

(* onAction stored in a study node: handleNodeAction(id, 'SLIDES' | 'CODE') *)
HandleNodeAction ==
    /\ fuel > 0
    /\ \E i \in 1..Len(nodes), type \in {"slides", "code"}, t \in Clock :
          /\ nodes[i].type = "study"
          /\ nodes[i].cap # Null
          /\ NodeUsable(nodes[i].id)
          /\ FindNode(nodes, nodes[i].id) # Null
          /\ Note("nodeAction", CreateInfo(NoPos, nodes[i].id, MkId(type, t)))
          /\ AddNodeGeneric(past, timers, nodes[i].cap[1], type, NoPos, nodes[i].id,
                            Null, Null, t)
          /\ pending' = Remount(nodes, nodes', pending)

(* ------------------------- full-screen presentation -------------------- *)
(* toggleFullScreen of a node component, from its maximize control or, when *)
(* full screen, from its close control.  The content component is rendered  *)
(* in another place of the tree, so it unmounts and mounts again            *)
ToggleFullScreen ==
    /\ fuel > 0
    /\ \E i \in 1..Len(nodes) :
          /\ HasCloseButton(nodes[i])
          /\ NodeUsable(nodes[i].id)
          /\ Note("toggleFullScreen", [NoInfo EXCEPT !.id = nodes[i].id])
          /\ nodes' = [j \in 1..Len(nodes) |->
                         IF nodes[j].id = nodes[i].id
                         THEN [nodes[j] EXCEPT !.isFullScreen = ~nodes[j].isFullScreen]
                         ELSE nodes[j]]
          /\ pending' = RemountToggled(nodes, nodes', pending)
          /\ UNCHANGED <<edges, past, future, focusedNodeId, timers, dragging, now, visited>>

(* the Escape key or the close-fullscreen event: every node leaves full *)
(* screen                                                               *)
CloseFullScreen ==
    /\ fuel > 0
    /\ ~CanvasUsable
    /\ Note("closeFullScreen", NoInfo)
    /\ nodes' = [j \in 1..Len(nodes) |-> [nodes[j] EXCEPT !.isFullScreen = FALSE]]
    /\ pending' = RemountToggled(nodes, nodes', pending)
    /\ UNCHANGED <<edges, past, future, focusedNodeId, timers, dragging, now, visited>>

(* ------------------------ content generation --------------------------- *)
(* setNodes(nds => nds.map(n => n.id === nodeId ? {...n, data: {...n.data, *)
(* slideContent}} : n))                                                    *)
PatchSlidesUpsert(ns, nodeId, content) ==
    IF nodeId \in Ids(ns)
    THEN [j \in 1..Len(ns) |->
            IF ns[j].id = nodeId THEN [ns[j] EXCEPT !.slideContent = content] ELSE ns[j]]
    ELSE Append(ns, [MkNode(nodeId, "slides", Pos(0, 0), Null, Null)
                       EXCEPT !.slideContent = content])

PatchSlidesAtOrigin(ns, nodeId, content) ==
    [j \in 1..Len(ns) |->
        IF ns[j].id = nodeId
        THEN [ns[j] EXCEPT !.slideContent = content, !.position = Pos(0, 0)]
        ELSE ns[j]]

PatchSlides(ns, nodeId, content) ==
    [j \in 1..Len(ns) |->
        IF ns[j].id = nodeId THEN [ns[j] EXCEPT !.slideContent = content] ELSE ns[j]]

(* generateSlidesOnly settles.  On success, while isMounted, the slides are *)
(* stored in the node and the image effect of the component asks for the    *)
(* image of the current slide; a rejection is logged                        *)
SlidesResolve ==
    /\ fuel > 0
    /\ \E i \in 1..Len(pending), ok \in BOOLEAN :
          /\ pending[i].kind = "slides"
          /\ Note("slidesResolve",
                  [NoInfo EXCEPT !.id = pending[i].nodeId, !.auto = ok])
          /\ IF ok /\ pending[i].mounted
             THEN /\ nodes' = PatchSlides(nodes, pending[i].nodeId, TextSlides)
                  /\ pending' = Append(DropPending(pending, i),
                                       ImageRequest(pending[i].nodeId))
             ELSE /\ nodes' = nodes
                  /\ pending' = DropPending(pending, i)
          /\ UNCHANGED <<edges, past, future, focusedNodeId, timers, dragging, now, visited>>

(* generateImage settles: with an image the node is patched, whether or not *)
(* the component is still mounted                                           *)
ImageResolve ==
    /\ fuel > 0
    /\ \E i \in 1..Len(pending), ok \in BOOLEAN :
          /\ pending[i].kind = "image"
          /\ Note("imageResolve",
                  [NoInfo EXCEPT !.id = pending[i].nodeId, !.auto = ok])
          /\ nodes' = IF ok THEN PatchSlides(nodes, pending[i].nodeId, ImageSlides)
                      ELSE nodes
          /\ pending' = DropPending(pending, i)
          /\ UNCHANGED <<edges, past, future, focusedNodeId, timers, dragging, now, visited>>

(* ------------------------ command interpretation ----------------------- *)
(* what interpretAgentCommand can come back with: a directive of one of the *)
(* node types; its fallback { type: 'study', ... } after generateContent or *)
(* JSON.parse has thrown; a JSON value without type and data, such as {};   *)
(* the JSON value null                                                      *)
CommandTypes == {"slides"}
CommandOutcomes == CommandTypes \cup {"throws", "empty", "null"}

(* cmd.type as handleCommandSubmit reads it *)
CommandType(outcome) ==
    IF outcome = "throws" THEN "study"
    ELSE IF outcome = "empty" THEN "undefined"
    ELSE outcome

CommandOp(outcome) ==
    IF outcome = "throws" THEN "commandThrows"
    ELSE IF outcome = "empty" THEN "commandEmpty"
    ELSE IF outcome = "null" THEN "commandNull"
    ELSE "command"

(* handleCommandSubmit up to its await: from the toolbar input, which is  *)
(* disabled while a command is processed, or from the prompt of the       *)
(* connector menu with the menu's source node and position                *)
HandleCommandSubmit ==
    /\ fuel > 0
    /\ CanvasUsable
    /\ \E src \in {Null} \cup {n.id : n \in {m \in Range(nodes) : HasSourceHandle(m)}},
          p \in MenuPositions :
          LET parent == IF src # Null THEN src ELSE focusedNodeId
              position == IF src # Null THEN p ELSE NoPos
          IN /\ src = Null => \A i \in 1..Len(pending) : pending[i].kind # "command"
             /\ Note("commandSubmit", [NoInfo EXCEPT !.parent = parent])
             /\ pending' = Append(pending, CommandCall(Live, parent, position))
             /\ UNCHANGED <<nodes, edges, past, future, focusedNodeId, timers,
                            dragging, now, visited>>

(* handleCommandSubmit from its await on: addNodeGeneric(cmd.type, ...,   *)
(* position, parent || undefined) of the render that submitted; reading   *)
(* cmd.data of null throws, which is caught and answered with the alert   *)
CommandResolves ==
    /\ fuel > 0
    /\ \E i \in 1..Len(pending), outcome \in CommandOutcomes, t \in Clock :
          LET c == pending[i]
              type == CommandType(outcome)
          IN /\ c.kind = "command"
             /\ Note(CommandOp(outcome), CreateInfo(c.position, c.parent, MkId(type, t)))
             /\ IF outcome = "null"
                THEN /\ pending' = DropPending(pending, i)
                     /\ UNCHANGED <<nodes, edges, past, future, focusedNodeId,
                                    timers, dragging, now, visited>>
                ELSE /\ AddNodeGeneric(past, timers, c.closure[1], type, c.position,
                                       c.parent, Null, Null, t)
                     /\ pending' = Remount(nodes, nodes', DropPending(pending, i))

(* handleStart, the onStart stored in the start node's data, up to its *)
(* first await: pushHistory                                            *)
HandleStart ==
    /\ fuel > 0
    /\ \E i \in 1..Len(nodes) :
          /\ nodes[i].type = "start"
          /\ nodes[i].cap # Null
          /\ NodeUsable(nodes[i].id)
          /\ Note("start", NoInfo)
          /\ past' = TakeSnapshot(past, nodes[i].cap[1])
          /\ future' = <<>>
          /\ pending' = Append(pending, CourseCall(nodes[i].cap[1]))
          /\ UNCHANGED <<nodes, edges, focusedNodeId, timers, dragging, now, visited>>

(* the start node after the effect that keeps its handlers fresh has run *)
(* for a render that saw `closure'                                       *)
FreshStart(ns, closure) ==
    [j \in 1..Len(ns) |->
        IF ns[j].type = "start" THEN [ns[j] EXCEPT !.cap = <<closure>>] ELSE ns[j]]

(* handleStart from its await on: saveSession and addCurriculumNode, or *)
(* the alert when the generation has failed.  saveSession changes       *)
(* sessions, so the effect stores the handlers of the next render       *)
CourseResolves ==
    /\ fuel > 0
    /\ \E i \in 1..Len(pending), ok \in BOOLEAN, t \in Clock :
          LET c == pending[i]
          IN /\ c.kind = "course"
             /\ IF ok
                THEN /\ Note("course", CreateInfo(Pos(600, 0), StartId, MkId("curriculum", t)))
                     /\ Len(nodes) < MaxNodes
                     /\ past' = TakeSnapshot(past, c.closure[1])
                     /\ future' = <<>>
                     /\ edges' = Append(edges, NewEdge(StartId, MkId("curriculum", t)))
                     /\ nodes' = FreshStart(
                                    Append(nodes, MkNode(MkId("curriculum", t), "curriculum",
                                                         Pos(600, 0), c.closure, Null)),
                                    Graph(Append(nodes, MkNode(MkId("curriculum", t),
                                                               "curriculum", Pos(600, 0),
                                                               c.closure, Null)),
                                          edges'))
                     /\ timers' = Append(timers, FocusTimer(MkId("curriculum", t)))
                     /\ now' = t
                     /\ pending' = DropPending(pending, i)
                     /\ UNCHANGED <<focusedNodeId, dragging, visited>>
                ELSE /\ Note("courseFails", NoInfo)
                     /\ pending' = DropPending(pending, i)
                     /\ UNCHANGED <<nodes, edges, past, future, focusedNodeId,
                                    timers, dragging, now, visited>>

(* ------------------------------ navigation ----------------------------- *)
(* insert n behind every element whose y is not larger: the position a *)
(* stable sort by a.position.y - b.position.y gives it                 *)
InsertByY(n, s) ==
    LET k == Cardinality({i \in 1..Len(s) : PosY(s[i].position) <= PosY(n.position)})
    IN SubSeq(s, 1, k) \o <<n>> \o SubSeq(s, k + 1, Len(s))

RECURSIVE SortByY(_)
SortByY(s) == IF s = <<>> THEN <<>> ELSE InsertByY(LastOf(s), SortByY(Front(s)))

RECURSIVE ChildNodes(_, _, _)
ChildNodes(ns, es, parentId) ==
    IF es = <<>> THEN <<>>
    ELSE IF Head(es).source = parentId
         THEN FindNode(ns, Head(es).target) \o ChildNodes(ns, Tail(es), parentId)
         ELSE ChildNodes(ns, Tail(es), parentId)

GetSortedChildren(ns, es, parentId) == SortByY(ChildNodes(ns, es, parentId))

(* edges.find(e => e.target === id) *)
IncomingEdge(es, id) ==
    IF \E i \in 1..Len(es) : es[i].target = id
    THEN <<es[CHOOSE i \in 1..Len(es) :
                /\ es[i].target = id
                /\ \A j \in 1..(i - 1) : es[j].target # id]>>
    ELSE Null

(* siblings.findIndex(n => n.id === id), counted from 1; 0 when absent *)
FindIndex(s, id) ==
    IF \E i \in 1..Len(s) : s[i].id = id
    THEN CHOOSE i \in 1..Len(s) : s[i].id = id /\ \A j \in 1..(i - 1) : s[j].id # id
    ELSE 0

(* the while (walker) loop never ends *)
Diverges == <<"diverges">>

(* the loop has no state but walker: when it comes back to a node it has *)
(* left before, it runs forever                                          *)
RECURSIVE WalkerSkipsSiblings(_, _, _, _)
WalkerSkipsSiblings(ns, es, walker, seen) ==
    LET incomingEdge == IncomingEdge(es, walker)
    IN IF walker \in seen THEN Diverges
       ELSE IF incomingEdge = Null THEN Null
       ELSE WalkerSkipsSiblings(ns, es, incomingEdge[1].source, seen \cup {walker})

RECURSIVE Walker(_, _, _, _)
Walker(ns, es, walker, seen) ==
    LET incomingEdge == IncomingEdge(es, walker)
        siblings == GetSortedChildren(ns, es, incomingEdge[1].source)
        currentIndex == FindIndex(siblings, walker)
    IN IF walker \in seen THEN Diverges
       ELSE IF incomingEdge = Null THEN Null
       ELSE IF currentIndex # 0 /\ currentIndex < Len(siblings)
            THEN siblings[currentIndex + 1].id
       ELSE Walker(ns, es, incomingEdge[1].source, seen \cup {walker})

NextTargetNoClimb(ns, es, nodeId) ==
    LET children == GetSortedChildren(ns, es, nodeId)
        incomingEdge == IncomingEdge(es, nodeId)
        siblings == GetSortedChildren(ns, es, incomingEdge[1].source)
        currentIndex == FindIndex(siblings, nodeId)
    IN IF Len(children) > 0 THEN children[1].id
       ELSE IF incomingEdge = Null THEN Null
       ELSE IF currentIndex # 0 /\ currentIndex < Len(siblings)
            THEN siblings[currentIndex + 1].id
       ELSE Null

NextTarget(ns, es, nodeId) ==
    LET children == GetSortedChildren(ns, es, nodeId)
    IN IF Len(children) > 0 THEN children[1].id
       ELSE Walker(ns, es, nodeId, {})

PrevTargetAlwaysParent(ns, es, nodeId) ==
    LET incomingEdge == IncomingEdge(es, nodeId)
    IN IF incomingEdge = Null THEN Null ELSE incomingEdge[1].source

PrevTarget(ns, es, nodeId) ==
    LET incomingEdge == IncomingEdge(es, nodeId)
        siblings == GetSortedChildren(ns, es, incomingEdge[1].source)
        currentIndex == FindIndex(siblings, nodeId)
    IN IF incomingEdge = Null THEN Null
       ELSE IF currentIndex > 1 THEN siblings[currentIndex - 1].id
       ELSE incomingEdge[1].source

NavTarget(ns, es, nodeId, direction) ==
    IF direction = "next" THEN NextTarget(ns, es, nodeId)
    ELSE PrevTarget(ns, es, nodeId)

(* const nodes = getNodes(); const edges = getEdges(): the store as it is *)
(* at the call                                                            *)
GetNodesStale == IF past # <<>> THEN LastOf(past).nodes ELSE nodes

GetNodes == nodes

GetEdges == edges

(* setFocusedNodeId(targetId) under if (targetId) *)
NavFocusAlways(targetId) == targetId

NavFocus(targetId) == IF targetId # Null THEN targetId ELSE focusedNodeId

(* handleNavigate(nodeId, direction) *)
HandleNavigate(nodeId, direction) ==
    LET currentNode == FindNode(GetNodes, nodeId)
        targetId == IF currentNode = Null THEN Null
                    ELSE NavTarget(GetNodes, GetEdges, nodeId, direction)
    IN /\ targetId # Diverges
       /\ Note(IF targetId = Null THEN direction \o "None" ELSE direction,
               [NoInfo EXCEPT !.parent = nodeId, !.id = targetId])
       /\ focusedNodeId' = NavFocus(targetId)
       /\ nodes' = IF targetId # Null /\ currentNode[1].isFullScreen
                   THEN [i \in 1..Len(nodes) |->
                           IF nodes[i].id = nodeId
                           THEN [nodes[i] EXCEPT !.isFullScreen = FALSE]
                           ELSE IF nodes[i].id = targetId
                           THEN [nodes[i] EXCEPT !.isFullScreen = TRUE]
                           ELSE nodes[i]]
                   ELSE nodes
       /\ pending' = RemountToggled(nodes, nodes', pending)
       /\ UNCHANGED <<edges, past, future, timers, dragging, now>>

(* pre-order of the tree below id, children in the order of ascending y *)
RECURSIVE PreOrder(_, _, _)
RECURSIVE PreOrderAll(_, _, _)
PreOrderAll(ns, es, children) ==
    IF children = <<>> THEN <<>>
    ELSE PreOrder(ns, es, Head(children).id) \o PreOrderAll(ns, es, Tail(children))

PreOrder(ns, es, id) == <<id>> \o PreOrderAll(ns, es, GetSortedChildren(ns, es, id))

(* a tour: next from the root until there is no target, then prev until *)
(* there is no target; visited is the list of nodes the next steps reach *)
TourNext ==
    /\ fuel > 0
    /\ last.op \in {"init", "next"}
    /\ HandleNavigate(focusedNodeId, "next")
    /\ visited' = IF focusedNodeId' # focusedNodeId
                  THEN Append(visited, focusedNodeId') ELSE visited

TourPrev ==
    /\ fuel > 0
    /\ last.op \in {"nextNone", "prev"}
    /\ HandleNavigate(focusedNodeId, "prev")
    /\ UNCHANGED visited

(* the toolbar arrows: focusedNodeId && handleNavigate(focusedNodeId, dir) *)
ToolbarNavigate ==
    /\ fuel > 0
    /\ CanvasUsable
    /\ \E direction \in {"prev", "next"} :
          /\ focusedNodeId # Null
          /\ HandleNavigate(focusedNodeId, direction)
          /\ UNCHANGED visited

(* the arrows a slides or code node shows while it is full screen: *)
(* data.onNavigate(dir), i.e. handleNavigate(id, dir)              *)
NodeNavigate ==
    /\ fuel > 0
    /\ \E i \in 1..Len(nodes), direction \in {"prev", "next"} :
          /\ nodes[i].isFullScreen
          /\ nodes[i].type \in {"slides", "code"}
          /\ HandleNavigate(nodes[i].id, direction)
          /\ UNCHANGED visited

(* --------------------------- specification ----------------------------- *)
(* the canvas after mount with sessions in localStorage: the effect that *)
(* keeps the start node fresh has run for the render that loaded them    *)
SessionNodes == << MkNode(StartId, "start", Pos(0, 0),
                          <<Graph(MountedNodes, <<>>)>>, Null) >>

InitCanvas ==
    /\ nodes = SessionNodes
    /\ edges = <<>>
    /\ past = <<>>
    /\ future = <<>>
    /\ focusedNodeId = StartId
    /\ timers = <<>>
    /\ dragging = Null
    /\ pending = <<>>
    /\ now = 0
    /\ visited = <<>>
    /\ lived = {}
    /\ last = [op |-> "init", pre |-> Pre, info |-> NoInfo, prevOp |-> "init"]

Init ==
    /\ InitCanvas
    /\ fuel = MaxSteps

Next ==
    \/ AddCodeSandbox
    \/ HandleMenuSelect
    \/ ToggleLiveNode
    \/ HandleDeleteSelected
    \/ NodeClose
    \/ OnConnect
    \/ OnNodeDragStart
    \/ NodeDrag
    \/ OnSelectionChange
    \/ Undo
    \/ Redo
    \/ HandleResume
    \/ FocusTimerFires
    \/ ResumeTimerFires
    \/ OnSelectModule
    \/ HandleNodeAction
    \/ ToolbarNavigate

Spec == Init /\ [][Next]_vars

(* creation without a position, selection, deletion, undo and redo *)
InitPlace ==
    /\ InitCanvas
    /\ fuel = MaxPlaceSteps

NextPlace ==
    \/ AddCodeSandbox
    \/ OnSelectionChange
    \/ HandleDeleteSelected
    \/ FocusTimerFires
    \/ Undo
    \/ Redo

SpecPlace == InitPlace /\ [][NextPlace]_vars

(* the history stacks under drags, deleteSelected, undo and redo *)
InitHist ==
    /\ InitCanvas
    /\ fuel = MaxHistSteps

NextHist ==
    \/ HandleDeleteSelected
    \/ OnNodeDragStart
    \/ NodeDrag
    \/ Undo
    \/ Redo

SpecHist == InitHist /\ [][NextHist]_vars

(* handleNavigate on every tree of up to MaxTreeNodes nodes below start *)
TreeYs == {0, 600}
TreeNodeId(i) == IF i = 1 THEN StartId ELSE MkId("study", i)

TreeNodes(n, ys) ==
    [i \in 1..n |-> MkNode(TreeNodeId(i), IF i = 1 THEN "start" ELSE "study",
                           Pos(IF i = 1 THEN 0 ELSE 600, ys[i]), Null, Null)]

TreeEdges(n, par) ==
    [k \in 1..(n - 1) |-> [id |-> EdgeId(TreeNodeId(par[k + 1]), TreeNodeId(k + 1)),
                           source |-> TreeNodeId(par[k + 1]),
                           target |-> TreeNodeId(k + 1)]]

InitNav ==
    /\ \E n \in 1..MaxTreeNodes :
         \E par \in [1..n -> 1..n], ys \in [1..n -> TreeYs] :
            /\ par[1] = 1
            /\ ys[1] = 0
            /\ \A i \in 2..n : par[i] < i
            /\ nodes = TreeNodes(n, ys)
            /\ edges = TreeEdges(n, par)
    /\ past = <<>>
    /\ future = <<>>
    /\ focusedNodeId = StartId
    /\ timers = <<>>
    /\ dragging = Null
    /\ pending = <<>>
    /\ now = 0
    /\ visited = <<StartId>>
    /\ lived = {}
    /\ fuel = 2 * MaxTreeNodes + 2
    /\ last = [op |-> "init", pre |-> Pre, info |-> NoInfo, prevOp |-> "init"]

NextNav ==
    \/ TourNext
    \/ TourPrev

SpecNav == InitNav /\ [][NextNav]_vars

(* slides nodes created by command, their generation requests, deletion, *)
(* undo and full screen                                                  *)
InitGen ==
    /\ InitCanvas
    /\ fuel = MaxGenSteps

NextGen ==
    \/ HandleCommandSubmit
    \/ CommandResolves
    \/ SlidesResolve
    \/ ImageResolve
    \/ NodeClose
    \/ OnSelectionChange
    \/ HandleDeleteSelected
    \/ Undo
    \/ ToggleFullScreen
    \/ CloseFullScreen

SpecGen == InitGen /\ [][NextGen]_vars

(* commands, course generation and resume next to direct mutations *)
InitCmd ==
    /\ InitCanvas
    /\ fuel = MaxCmdSteps

NextCmd ==
    \/ HandleCommandSubmit
    \/ CommandResolves
    \/ HandleStart
    \/ CourseResolves
    \/ HandleResume
    \/ ResumeTimerFires
    \/ OnSelectModule
    \/ HandleNodeAction
    \/ HandleMenuSelect
    \/ ToggleLiveNode
    \/ AddCodeSandbox
    \/ NodeClose
    \/ FocusTimerFires

SpecCmd == InitCmd /\ [][NextCmd]_vars

(* hand-wired graphs.  Three quiz nodes were added from the connector menu *)
(* of the start node, the start node was selected and deleted, which took  *)
(* every edge with it, and one of the three was selected: from here        *)
(* onConnect can wire any graph over the three nodes                       *)
WireYs == {<<0, 300, 600>>, <<300, 300, 300>>}

WireNode(k, ys) == MkNode(MkId("quiz", k - 1), "quiz", Pos(900, ys[k]), Null, Null)

WireNodes(n, ys) == [k \in 1..n |-> WireNode(k, ys)]

WireEdges(n) == [k \in 1..n |-> NewEdge(StartId, MkId("quiz", k - 1))]

WirePast(ys) ==
    << Graph(SessionNodes, <<>>),
       Graph(SessionNodes \o WireNodes(1, ys), WireEdges(1)),
       Graph(SessionNodes \o WireNodes(2, ys), WireEdges(2)),
       Graph(<<[SessionNodes[1] EXCEPT !.selected = TRUE]>> \o WireNodes(3, ys),
             WireEdges(3)) >>

InitWire ==
    /\ \E ys \in WireYs, f \in 1..3 :
          /\ nodes = [k \in 1..3 |-> [WireNode(k, ys) EXCEPT !.selected = (k = f)]]
          /\ focusedNodeId = MkId("quiz", f - 1)
          /\ past = WirePast(ys)
    /\ edges = <<>>
    /\ future = <<>>
    /\ timers = <<>>
    /\ dragging = Null
    /\ pending = <<>>
    /\ now = 2
    /\ visited = <<>>
    /\ lived = {}
    /\ fuel = MaxWireSteps
    /\ last = [op |-> "init", pre |-> Pre, info |-> NoInfo, prevOp |-> "init"]

NextWire ==
    \/ OnConnect
    \/ ToolbarNavigate

SpecWire == InitWire /\ [][NextWire]_vars

(* navigation between nodes, from the toolbar and from full-screen nodes *)
InitFull ==
    /\ InitCanvas
    /\ fuel = MaxFullSteps

NextFull ==
    \/ AddCodeSandbox
    \/ OnSelectionChange
    \/ NodeClose
    \/ OnConnect
    \/ FocusTimerFires
    \/ ToggleFullScreen
    \/ CloseFullScreen
    \/ NodeNavigate
    \/ ToolbarNavigate

SpecFull == InitFull /\ [][NextFull]_vars

(* the history stacks under handlers of the current and of earlier renders, *)
(* with the record of the graphs that have been live; the first of them is  *)
(* the graph of the render in which the start node's handlers were stored   *)
InitLived ==
    /\ nodes = SessionNodes
    /\ edges = <<>>
    /\ past = <<>>
    /\ future = <<>>
    /\ focusedNodeId = StartId
    /\ timers = <<>>
    /\ dragging = Null
    /\ pending = <<>>
    /\ now = 0
    /\ visited = <<>>
    /\ lived = {Content(SessionNodes[1].cap[1])}
    /\ last = [op |-> "init", pre |-> Pre, info |-> NoInfo, prevOp |-> "init"]
    /\ fuel = MaxLivedSteps

NextLived ==
    \/ AddCodeSandbox
    \/ NodeClose
    \/ HandleResume
    \/ ResumeTimerFires
    \/ OnSelectModule
    \/ HandleCommandSubmit
    \/ CommandResolves
    \/ Undo
    \/ Redo

SpecLived == InitLived /\ [][NextLived]_vars

(* a command that resolves after its parent has been closed or the focus *)
(* has moved                                                              *)
InitLate ==
    /\ InitCanvas
    /\ fuel = MaxLateSteps

NextLate ==
    \/ AddCodeSandbox
    \/ OnSelectionChange
    \/ NodeClose
    \/ HandleCommandSubmit
    \/ CommandResolves

SpecLate == InitLate /\ [][NextLate]_vars

(* undo and redo called on empty and on non-empty stacks *)
InitGuard ==
    /\ InitCanvas
    /\ fuel = MaxGuardSteps

NextGuard ==
    \/ AddCodeSandbox
    \/ OnSelectionChange
    \/ HandleDeleteSelected
    \/ Undo
    \/ Redo
    \/ UndoEmpty
    \/ RedoEmpty

SpecGuard == InitGuard /\ [][NextGuard]_vars

(* ------------------------------ properties ----------------------------- *)
(* the steps that add a node, delete a node, add an edge or start a drag *)
CreateOps == {"addCode", "menuSelect", "toggleLiveOn", "resumeTimer",
              "selectModule", "nodeAction"}
MutationOps == CreateOps \cup {"toggleLiveOff", "deleteSelected", "nodeClose",
                               "connect", "dragStart"}
(* the steps that call pushHistory from the current render *)
PushOps == {"addCode", "menuSelect", "toggleLiveOn", "toggleLiveOff",
            "deleteSelected", "connect", "dragStart"}
HistoryCap == HistoryKeep + 1

(* C1: undo() directly after a graph mutation M (node add, node delete,  *)
(* edge add, drag start) restores exactly the (nodes, edges) state that  *)
(* was live immediately before M.                                        *)
C1_UndoRestoresStateBeforeMutation ==
    [][(last.op \in MutationOps /\ last'.op = "undo")
         => (nodes' = last.pre.nodes /\ edges' = last.pre.edges)]_vars

(* C2: redo() directly after undo() restores exactly the (nodes, edges)  *)
(* state that was live before the undo, i.e. after M, and returns past   *)
(* and future to what they were before the undo.                         *)
C2_RedoMirrorsUndo ==
    [][(last.op = "undo" /\ last'.op = "redo")
         => /\ nodes' = last.pre.nodes
            /\ edges' = last.pre.edges
            /\ past' = last.pre.past
            /\ future' = last.pre.future]_vars

(* a redo directly after the undo of a step that changed the graph *)
C2_Witness ==
    /\ last.op = "redo"
    /\ last.prevOp = "undo"
    /\ Graph(nodes, edges) # Graph(last.pre.nodes, last.pre.edges)
    /\ Len(past) > 0

(* C3: after a graph mutation the future stack is empty, so a mutation   *)
(* performed after one or more undos leaves nothing to redo.             *)
C3_MutationClearsFuture ==
    last.op \in MutationOps => future = <<>>

(* C4: past never holds more than 10 snapshots; a push onto a full past  *)
(* discards the oldest entry and keeps the order of the others.          *)
C4_PastCappedOldestDropped ==
    /\ [](Len(past) <= HistoryCap)
    /\ [][(last'.op \in PushOps /\ Len(past) = HistoryCap)
            => past' = Append(Tail(past), Live)]_vars

(* a push onto a full past whose oldest entry differs from the next one *)
C4_Witness ==
    /\ last.op \in PushOps
    /\ Len(last.pre.past) = HistoryCap
    /\ Len(past) = HistoryCap
    /\ last.pre.past[1] # last.pre.past[2]
    /\ past[1] = last.pre.past[2]

(* C5: no two nodes in the node collection share an id. *)
C5_UniqueIds ==
    \A i \in 1..Len(nodes), j \in 1..Len(nodes) :
       i # j => nodes[i].id # nodes[j].id

(* C6: exactly one node has kind start and no edge has it as target. *)
C6_ExactlyOneStartNoIncoming ==
    /\ Cardinality({i \in 1..Len(nodes) : nodes[i].type = "start"}) = 1
    /\ \A i \in 1..Len(nodes), k \in 1..Len(edges) :
          nodes[i].type = "start" => edges[k].target # nodes[i].id

(* position of id in s, 0 when absent *)
IndexOf(s, id) ==
    IF \E k \in 1..Len(s) : s[k] = id
    THEN CHOOSE k \in 1..Len(s) : s[k] = id /\ \A j \in 1..(k - 1) : s[j] # id
    ELSE 0

(* C7: on a tree rooted at R, repeated next from R visits every node     *)
(* exactly once in depth-first pre-order (children by ascending y), and  *)
(* next at the last node of that order finds no target.                  *)
C7_NextTourIsPreOrder ==
    LET order == PreOrder(nodes, edges, StartId)
    IN /\ Len(visited) <= Len(order)
       /\ visited = SubSeq(order, 1, Len(visited))
       /\ last.op \in {"nextNone", "prev", "prevNone"}
            => /\ visited = order
               /\ Len(visited) = Len(nodes)
               /\ Range(visited) = Ids(nodes)

(* the tour has ended on a tree where next had to climb to an ancestor's *)
(* next sibling                                                          *)
C7_Witness ==
    /\ last.op = "nextNone"
    /\ Len(nodes) >= 4
    /\ \E k \in 2..Len(visited) :
          /\ IncomingEdge(edges, visited[k])[1].source # visited[k - 1]
          /\ IncomingEdge(edges, visited[k])[1].source
               # IncomingEdge(edges, visited[k - 1])[1].source

(* C8 as stated: every prev step of the tour leads from a node of the    *)
(* next sequence to the node visited just before it.                     *)
C8_PrevRetracesNextExactly ==
    last.op = "prev"
      => \E k \in 2..Len(visited) :
            /\ visited[k] = last.info.parent
            /\ visited[k - 1] = last.info.id

(* the next target of x is found without climbing: it is x's first child *)
(* or the next sibling of x                                              *)
LocalNext(x, y) ==
    /\ IncomingEdge(edges, y) # Null
    /\ \/ IncomingEdge(edges, y)[1].source = x
       \/ /\ IncomingEdge(edges, x) # Null
          /\ IncomingEdge(edges, x)[1].source = IncomingEdge(edges, y)[1].source

(* C8 amended: every prev step of the tour leads to a node visited       *)
(* earlier in the next sequence (the descendants of a previous sibling   *)
(* are skipped), the prev tour ends at R, and for every x whose next     *)
(* target y is x's first child or x's next sibling the prev target of y  *)
(* is x.                                                                 *)
C8_PrevRetracesNextSkipping ==
    /\ last.op = "prev"
         => /\ IndexOf(visited, last.info.id) > 0
            /\ IndexOf(visited, last.info.id) < IndexOf(visited, last.info.parent)
    /\ last.op = "prevNone" => focusedNodeId = StartId
    /\ \A i \in 1..Len(nodes) :
          LET x == nodes[i].id
              y == NextTarget(nodes, edges, x)
          IN (y # Null /\ LocalNext(x, y)) => PrevTarget(nodes, edges, y) = x

(* the prev tour has ended at R on a tree where it skipped a node *)
C8_Witness ==
    /\ last.op = "prevNone"
    /\ focusedNodeId = StartId
    /\ \E i \in 1..Len(nodes) :
          LET x == nodes[i].id
              y == NextTarget(nodes, edges, x)
          IN y # Null /\ PrevTarget(nodes, edges, y) # x

(* the steps that create a node without an explicit position *)
AutoOps == {"addCode", "selectModule", "nodeAction"}

(* C9: successive createNode calls without position under the same live  *)
(* parent give strictly increasing position.y; each child is placed at   *)
(* parent.position + (600, 600 * number of children the parent has).     *)
C9_ChildrenStackDownwards ==
    [][(/\ last.op \in AutoOps /\ last.info.auto
        /\ last'.op \in AutoOps /\ last'.info.auto
        /\ last'.info.parent = last.info.parent)
         => LET parent == FindNode(nodes, last'.info.parent)[1]
                k == ExistingChildren(edges, last'.info.parent)
            IN /\ PosY(LastOf(nodes').position) > PosY(LastOf(nodes).position)
               /\ LastOf(nodes').position =
                    Pos(PosX(parent.position) + xOffset,
                        PosY(parent.position) + ySpacing * k)]_vars

(* two children have just been stacked under the same parent *)
C9_Witness ==
    /\ last.op \in AutoOps /\ last.info.auto
    /\ last.prevOp \in AutoOps
    /\ Len(nodes) >= 3
    /\ nodes[Len(nodes)].under = last.info.parent
    /\ nodes[Len(nodes) - 1].under = last.info.parent
    /\ PosY(nodes[Len(nodes)].position) > PosY(nodes[Len(nodes) - 1].position)

(* C10: no two live nodes that were auto-placed under the same parent    *)
(* occupy the same position.                                             *)
C10_StackedChildrenNeverOverlap ==
    \A i \in 1..Len(nodes), j \in 1..Len(nodes) :
       (i # j /\ nodes[i].under # Null /\ nodes[i].under = nodes[j].under)
          => nodes[i].position # nodes[j].position

(* the steps in which a generation request of a slides node settles *)
ResolveOps == {"slidesResolve", "imageResolve"}

CommandFailOps == {"commandThrows", "commandEmpty", "commandNull"}

(* C12: when the command interpreter throws or returns an unparseable   *)
(* result, nodes, edges, past and future are unchanged: no node is      *)
(* created and no snapshot is pushed.                                   *)
C12_FailedCommandChangesNothing ==
    last.op \in CommandFailOps
      => /\ nodes = last.pre.nodes
         /\ edges = last.pre.edges
         /\ past = last.pre.past
         /\ future = last.pre.future

(* the steps that push a snapshot and then change the graph *)
GuardedOps == CreateOps \cup {"command", "commandThrows", "commandEmpty", "course",
                              "resume", "toggleLiveOff", "deleteSelected",
                              "connect", "dragStart"}

(* C13: every snapshot pushed onto past equals the (nodes, edges) state *)
(* that is live immediately before the mutation it guards, handlers    *)
(* stored in node data aside.                                           *)
C13_SnapshotIsLiveState ==
    [][last'.op \in GuardedOps
         => /\ past' # <<>>
            /\ Content(LastOf(past')) = Content(Graph(nodes, edges))]_vars

(* past p2 is past p after one pushHistory, or after the two of *)
(* toggleLiveNode when it adds the live node                    *)
PushedOnce(p, p2) == p2 # <<>> /\ Front(p2) = SliceLast(p, HistoryKeep)

Pushed(p, p2) == PushedOnce(p, p2) \/ PushedOnce(TakeSnapshot(p, Live), p2)

(* every step that adds a node *)
AllCreateOps == CreateOps \cup {"command", "commandThrows", "commandEmpty", "course"}

(* C14: every operation that adds a node, deletes a node, adds an edge *)
(* or starts a node drag pushes a snapshot onto past, deletion through *)
(* the node's own close control included.                              *)
C14_EveryMutationPushes ==
    [][last'.op \in (MutationOps \cup AllCreateOps) => Pushed(past, past')]_vars

(* C15: in the state in which createNode has inserted the new node, *)
(* focusedNodeId already equals the new node's id.                  *)
C15_FocusFollowsCreationAtOnce ==
    last.op \in AllCreateOps => focusedNodeId = last.info.id

(* nodes without the handlers stored in their data *)
Plain(ns) == [j \in 1..Len(ns) |-> [ns[j] EXCEPT !.cap = Null]]

(* C16: createNode adds exactly one node, whose id is the returned id   *)
(* and whose expanded flag is false, and adds exactly one edge          *)
(* parentId -> newId if and only if parentId is given; every node and   *)
(* edge that was there before is unchanged.                             *)
C16_CreateAddsOneNodeOneEdge ==
    [][last'.op \in AllCreateOps
         => /\ Len(nodes') = Len(nodes) + 1
            /\ Plain(SubSeq(nodes', 1, Len(nodes))) = Plain(nodes)
            /\ LastOf(nodes').id = last'.info.id
            /\ ~LastOf(nodes').isFullScreen
            /\ IF last'.info.parent # Null
               THEN /\ Len(edges') = Len(edges) + 1
                    /\ SubSeq(edges', 1, Len(edges)) = edges
                    /\ LastOf(edges').source = last'.info.parent
                    /\ LastOf(edges').target = last'.info.id
               ELSE edges' = edges]_vars

(* a node has been created under a parent on a canvas that already held *)
(* a child and its edge                                                 *)
C16_Witness ==
    /\ last.op \in AllCreateOps
    /\ last.info.parent # Null
    /\ Len(last.pre.nodes) >= 2
    /\ Len(last.pre.edges) >= 1
    /\ Len(nodes) = Len(last.pre.nodes) + 1
    /\ Len(edges) = Len(last.pre.edges) + 1

(* C17: every navigate(nodeId, direction) call terminates, also on   *)
(* graphs in which a cycle, a self-loop or a node with several parents *)
(* has been wired: the upward walk of next never runs forever.         *)
C17_NavigateTerminates ==
    \A i \in 1..Len(nodes), direction \in {"prev", "next"} :
       NavTarget(nodes, edges, nodes[i].id, direction) # Diverges

(* following the first incoming edge upwards from walker comes back to a *)
(* node it has passed                                                    *)
RECURSIVE ClimbRevisits(_, _, _)
ClimbRevisits(es, walker, seen) ==
    IF walker \in seen THEN TRUE
    ELSE IF IncomingEdge(es, walker) = Null THEN FALSE
    ELSE ClimbRevisits(es, IncomingEdge(es, walker)[1].source, seen \cup {walker})

(* next has been called on a childless node whose chain of parents runs *)
(* into a wired cycle, and has returned                                 *)
C17_Witness ==
    /\ last.op \in {"next", "nextNone"}
    /\ GetSortedChildren(last.pre.nodes, last.pre.edges, last.info.parent) = <<>>
    /\ ClimbRevisits(last.pre.edges, last.info.parent, {})

(* the steps of handleNavigate: with a target, and without one *)
NavFoundOps == {"prev", "next"}
NavNoneOps == {"prevNone", "nextNone"}

Expanded(ns) == {j \in 1..Len(ns) : ns[j].isFullScreen}

(* C18: when navigate finds a target and the source node is expanded, *)
(* afterwards the source is collapsed unless it is the target itself, *)
(* the target is expanded and no other node's expanded flag has       *)
(* changed, so the number of expanded nodes does not rise; when the   *)
(* source is not expanded, no node's expanded flag changes.           *)
C18_ExpansionMovesToTarget ==
    [][last'.op \in NavFoundOps
         => LET src == last'.info.parent
                tgt == last'.info.id
            IN IF FindNode(nodes, src)[1].isFullScreen
               THEN /\ \A j \in 1..Len(nodes') :
                         (nodes'[j].id = src /\ src # tgt) => ~nodes'[j].isFullScreen
                    /\ \E j \in 1..Len(nodes') :
                         nodes'[j].id = tgt /\ nodes'[j].isFullScreen
                    /\ \A j \in 1..Len(nodes) :
                         nodes[j].id \notin {src, tgt}
                           => nodes'[j].isFullScreen = nodes[j].isFullScreen
                    /\ Cardinality(Expanded(nodes')) <= Cardinality(Expanded(nodes))
               ELSE \A j \in 1..Len(nodes) :
                       nodes'[j].isFullScreen = nodes[j].isFullScreen]_vars

(* the direction of a navigation step *)
NavDirection(op) == IF op \in {"prev", "prevNone"} THEN "prev" ELSE "next"

(* C19: the target of navigate depends only on the live (nodes, edges,  *)
(* nodeId, direction); the call never changes the node set, a node's    *)
(* id, kind or position, the edge set, past or future; when a target    *)
(* exists focusedNodeId becomes that target.                            *)
C19_NavigateReadsLiveGraphOnly ==
    [][last'.op \in (NavFoundOps \cup NavNoneOps)
         => LET nodeId == last'.info.parent
                target == IF FindNode(nodes, nodeId) = Null THEN Null
                          ELSE NavTarget(nodes, edges, nodeId, NavDirection(last'.op))
            IN /\ last'.info.id = target
               /\ target # Null => focusedNodeId' = target
               /\ Len(nodes') = Len(nodes)
               /\ \A j \in 1..Len(nodes) :
                     /\ nodes'[j].id = nodes[j].id
                     /\ nodes'[j].type = nodes[j].type
                     /\ nodes'[j].position = nodes[j].position
               /\ edges' = edges
               /\ past' = past
               /\ future' = future]_vars

(* navigate has moved the focus on a graph that differs from the newest *)
(* snapshot in past                                                     *)
C19_Witness ==
    /\ last.op \in NavFoundOps
    /\ focusedNodeId = last.info.id
    /\ focusedNodeId # last.pre.focus
    /\ past # <<>>
    /\ Len(LastOf(past).nodes) < Len(nodes)
    /\ last.info.id \notin Ids(LastOf(past).nodes)

(* C20: a navigate call without a target is a silent no-op:            *)
(* focusedNodeId, every node's expanded flag, nodes, edges and history *)
(* are unchanged.                                                      *)
C20_DeadEndIsNoOp ==
    [][last'.op \in NavNoneOps
         => /\ focusedNodeId' = focusedNodeId
            /\ nodes' = nodes
            /\ edges' = edges
            /\ past' = past
            /\ future' = future]_vars

(* next on a full-screen childless node has climbed to the root and found *)
(* no target                                                              *)
C20_Witness ==
    /\ last.op = "nextNone"
    /\ IncomingEdge(last.pre.edges, last.info.parent) # Null
    /\ FindNode(last.pre.nodes, last.info.parent) # Null
    /\ FindNode(last.pre.nodes, last.info.parent)[1].isFullScreen
    /\ focusedNodeId = last.pre.focus

(* ------------------------------- C21 ----------------------------------- *)
SelectedIds(ns) == {ns[i].id : i \in {j \in 1..Len(ns) : ns[j].selected}}

Unselected(ns) == FilterSeq(ns, {n \in Range(ns) : ~n.selected})

Between(es, ns) ==
    FilterSeq(es, {e \in Range(es) : e.source \in Ids(ns) /\ e.target \in Ids(ns)})

(* C21: after deleteSelected no node that was selected remains, no edge   *)
(* remains whose source or target is a removed node, and the unselected   *)
(* nodes and the edges between unselected nodes are exactly as they were  *)
C21_DeleteRemovesSelectionOnly ==
    [][last'.op = "deleteSelected" =>
          /\ \A i \in 1..Len(nodes') : ~nodes'[i].selected
          /\ \A i \in 1..Len(edges') :
                /\ edges'[i].source \notin SelectedIds(nodes)
                /\ edges'[i].target \notin SelectedIds(nodes)
          /\ nodes' = Unselected(nodes)
          /\ Between(edges', nodes') = Between(edges, Unselected(nodes))]_vars

(* ------------------------------- C22 ----------------------------------- *)
Succ(es, S) == {es[i].target : i \in {j \in 1..Len(es) : es[j].source \in S}}

RECURSIVE Reachable(_, _, _)
Reachable(es, frontier, seen) ==
    LET new == Succ(es, frontier) \ seen
    IN IF new = {} THEN seen ELSE Reachable(es, new, seen \cup new)

Acyclic(es) ==
    \A i \in 1..Len(es) : es[i].source \notin Reachable(es, {es[i].source}, {})

IncomingCount(es, id) == Cardinality({i \in 1..Len(es) : es[i].target = id})

(* C22: without manual connections the edge relation is acyclic and every *)
(* node has at most one incoming edge                                     *)
C22_EdgesFormForest ==
    /\ Acyclic(edges)
    /\ \A i \in 1..Len(nodes) : IncomingCount(edges, nodes[i].id) <= 1

(* ------------------------------- C23 ----------------------------------- *)
(* C23: each snapshot stored in past or future is a (nodes, edges) pair *)
(* that was the live graph at some earlier point of the execution,      *)
(* handlers stored in node data aside                                   *)
C23_SnapshotsWereLive ==
    /\ \A i \in 1..Len(past) : Content(past[i]) \in lived
    /\ \A i \in 1..Len(future) : Content(future[i]) \in lived

(* a handler of an earlier render has pushed a graph that is not the one *)
(* it replaced                                                           *)
C23_Witness ==
    /\ last.op \in {"resume", "command", "selectModule", "resumeTimer"}
    /\ Len(past) >= 2
    /\ Content(LastOf(past)) # Content(Graph(last.pre.nodes, last.pre.edges))

(* ------------------------------- C24 ----------------------------------- *)
(* the nodes after the request r has resolved with a result *)
Resolved(ns, r) ==
    IF r.kind = "slides"
    THEN IF r.mounted THEN PatchSlides(ns, r.nodeId, TextSlides) ELSE ns
    ELSE PatchSlides(ns, r.nodeId, ImageSlides)

ResolveKind(op) == IF op = "slidesResolve" THEN "slides" ELSE "image"

(* C24: the resolution of a generation request for node X changes only the *)
(* payload of the nodes with X's id: the number and order of the nodes,    *)
(* the edges, every other node, and X's id, kind and position stay; and    *)
(* two pending resolutions for different nodes give the same nodes in      *)
(* either order                                                            *)
C24_ResolutionPatchesOneNode ==
    /\ [][last'.op \in ResolveOps =>
             /\ edges' = edges
             /\ Len(nodes') = Len(nodes)
             /\ \A j \in 1..Len(nodes) :
                   /\ nodes[j].id # last'.info.id => nodes'[j] = nodes[j]
                   /\ [nodes'[j] EXCEPT !.slideContent = nodes[j].slideContent]
                         = nodes[j]
             /\ \E i \in 1..Len(pending) :
                   /\ pending[i].kind = ResolveKind(last'.op)
                   /\ pending[i].nodeId = last'.info.id
                   /\ nodes' = IF last'.info.auto
                               THEN Resolved(nodes, pending[i]) ELSE nodes]_vars
    /\ [](\A i, j \in 1..Len(pending) :
             (/\ pending[i].kind \in {"slides", "image"}
              /\ pending[j].kind \in {"slides", "image"}
              /\ pending[i].nodeId # pending[j].nodeId)
             => Resolved(Resolved(nodes, pending[i]), pending[j])
                  = Resolved(Resolved(nodes, pending[j]), pending[i]))

(* a request has resolved and patched its node while a request for a *)
(* different node is still pending                                   *)
C24_Witness ==
    /\ last.op \in ResolveOps
    /\ nodes # last.pre.nodes
    /\ \E i \in 1..Len(pending) :
          /\ pending[i].kind \in {"slides", "image"}
          /\ pending[i].nodeId # last.info.id
          /\ pending[i].nodeId \in Ids(nodes)

(* ------------------------------- C25 ----------------------------------- *)
(* the position the three-step rule gives in the graph (ns, es) *)
ThreeStepRule(ns, es, parentId, focus) ==
    LET parent == FindNode(ns, parentId)
        focused == FindNode(ns, focus)
    IN IF parentId # Null /\ parent # Null
       THEN Pos(PosX(parent[1].position) + 600,
                PosY(parent[1].position) + 600 * ExistingChildren(es, parentId))
       ELSE IF focus # Null /\ focused # Null
       THEN Pos(PosX(focused[1].position) + 600, PosY(focused[1].position))
       ELSE Pos(100 + 30 * Len(ns), 100 + 30 * Len(ns))

(* C25: a node created without an explicit position is placed by the     *)
(* three-step rule: below the parent's existing children when parentId    *)
(* resolves; else right of the focused node when focusedNodeId resolves   *)
(* (also when a parentId was given whose node is gone); else at the       *)
(* fallback position 100 + 30n                                            *)
C25_PlacementThreeStepRule ==
    [][(/\ last'.op \in AllCreateOps
        /\ last'.info.given = NoPos
        /\ Len(nodes') = Len(nodes) + 1)
       => LastOf(nodes').position
            = ThreeStepRule(nodes, edges, last'.info.parent, focusedNodeId)]_vars

(* ------------------------------- C26 ----------------------------------- *)
(* the graph is the start node alone *)
StartOnly(ns, es) ==
    /\ Len(ns) = 1
    /\ ns[1].id = StartId
    /\ ns[1].type = "start"
    /\ es = <<>>

(* C26: resume pushes a snapshot of the graph it replaces (handlers stored *)
(* in node data aside) and leaves the start node alone with no edges; when *)
(* its delayed step runs next, the graph is the start node, one curriculum *)
(* node and the single edge start -> curriculum                            *)
C26_ResumeResetsThenAddsCurriculum ==
    [][/\ last'.op = "resume" =>
             /\ past' # <<>>
             /\ Content(LastOf(past')) = Content(Live)
             /\ StartOnly(nodes', edges')
       /\ (last'.op = "resumeTimer" /\ last.op = "resume") =>
             /\ Len(nodes') = 2
             /\ StartOnly(<<nodes'[1]>>, <<>>)
             /\ nodes'[2].type = "curriculum"
             /\ Len(edges') = 1
             /\ edges'[1].source = StartId
             /\ edges'[1].target = nodes'[2].id]_vars

(* ------------------------------- C27 ----------------------------------- *)
(* C27: length(past) + length(future) never exceeds 10, and undo and redo *)
(* each move exactly one snapshot between the stacks, keeping the sum     *)
C27_HistoryTotalBounded ==
    /\ [](Len(past) + Len(future) <= 10)
    /\ [][last'.op = "undo" =>
             /\ Len(past') = Len(past) - 1
             /\ Len(future') = Len(future) + 1]_vars
    /\ [][last'.op = "redo" =>
             /\ Len(past') = Len(past) + 1
             /\ Len(future') = Len(future) - 1]_vars

(* redo has filled past up to ten snapshots *)
C27_Witness ==
    /\ last.op = "redo"
    /\ Len(past) = 10
    /\ Len(last.pre.future) >= 1
    /\ Len(last.pre.past) + Len(last.pre.future) = 10

(* ------------------------------- C28 ----------------------------------- *)
(* C28: the source and the target of every edge are ids of nodes in the *)
(* node collection                                                      *)
C28_NoDanglingEdges ==
    \A i \in 1..Len(edges) :
       /\ edges[i].source \in Ids(nodes)
       /\ edges[i].target \in Ids(nodes)

(* ------------------------------- C29 ----------------------------------- *)
(* C29: undo with an empty past and redo with an empty future change *)
(* none of nodes, edges, past, future and focusedNodeId              *)
C29_EmptyUndoRedoAreNoOps ==
    [][last'.op \in {"undoNone", "redoNone"} =>
          /\ nodes' = nodes
          /\ edges' = edges
          /\ past' = past
          /\ future' = future
          /\ focusedNodeId' = focusedNodeId]_vars

(* undo has been called with an empty past while future held a snapshot *)
C29_Witness ==
    /\ last.op = "undoNone"
    /\ Len(last.pre.past) = 0
    /\ Len(future) >= 1
    /\ Len(nodes) >= 1

(* ------------------------------- C30 ----------------------------------- *)
(* the user actions that are one step: every createNode from the current *)
(* render, toggleLiveNode, deleteSelected, connect and resume            *)
SingleActionOps == {"addCode", "menuSelect", "toggleLiveOn", "toggleLiveOff",
                    "deleteSelected", "connect", "resume"}

(* C30: a user action that changes nodes or edges adds exactly one      *)
(* snapshot to past, and one that changes neither leaves past and future *)
(* as they were                                                          *)
C30_OneSnapshotPerMutation ==
    [][last'.op \in SingleActionOps =>
          IF nodes' # nodes \/ edges' # edges
          THEN PushedOnce(past, past')
          ELSE past' = past /\ future' = future]_vars

====
